---- MODULE Spec2Model ----
(***************************************************************************)
(* State-machine model of the ccdlab command relay:                        *)
(*   - src/plh120-p.py : the PLH120-P power-supply daemon, its outbound    *)
(*     command queue (plh120_Protocol) and its client side                 *)
(*     (DaemonProtocol);                                                   *)
(*   - src/monitor.py  : the monitor (MonitorProtocol, MonitorFactory,     *)
(*     CmdlineProtocol, WebMonitor) with its status snapshots and          *)
(*     history buffers.                                                    *)
(* The two programs are separate processes; SpecHW and SpecMon are their   *)
(* specifications, and SpecDB is the monitor with its clock.  daemon.py    *)
(* and command.py (SimpleProtocol, SimpleFactory, catch, Command) are not  *)
(* part of the sources at hand;                                            *)
(* the operators standing for them are marked where they are defined.      *)
(*                                                                         *)
(* Text is modelled in two ways.  Device replies are sequences of          *)
(* one-character strings, so that the slicing and the float()/int()        *)
(* conversions of processMessage are computed.  Command lines are          *)
(* sequences of tokens; joined text is a TLA+ string built with \o.        *)
(* plh120-p.py is read with Python 2 string semantics (str.encode and      *)
(* str.decode of ASCII text are the identity on the text).                 *)
(***************************************************************************)
EXTENDS Integers, Sequences, FiniteSets, TLC

VARIABLES
    \* ---- plh120-p.py ----
    link,       \* the hardware transport is up (the protocol is in hw.connections)
    commands,   \* plh120_Protocol.commands, the outbound queue
    obj,        \* the shared state dictionary obj of plh120-p.py
    hwout,      \* texts written to the device by the last step
    fwd,        \* messages written to daemon clients by the last step
    \* ---- monitor.py ----
    connections, \* MonitorFactory.connections: the live MonitorProtocol objects, in order
    values,      \* obj['values']: peer name -> variable -> history buffer
    now,         \* the clock read by datetime.datetime.utcnow()
    db,          \* obj['db'] is configured (not None)
    db_status_timestamp, \* obj['db_status_timestamp']
    db_status_interval,  \* obj['db_status_interval']
    out,         \* messages handed to connections (and to the console, 0) by the last step
    dbq,         \* rows inserted into monitor_status by the last step
    \* ---- both ----
    last        \* the last operation handled, with a summary of its pre-state

hwvars == <<link, commands, obj, hwout, fwd>>

monvars == <<connections, values, now, db, db_status_timestamp, db_status_interval, out, dbq>>

vars == <<link, commands, obj, hwout, fwd,
          connections, values, now, db, db_status_timestamp, db_status_interval, out, dbq,
          last>>

(***************************************************************************)
(* Bounds of the model.                                                    *)
(***************************************************************************)
\* number of entries enqueued through message() that the queue holds at a time
MaxPending == 2

\* number of samples a history buffer may hold beyond those it starts with
MaxTail == 1

\* the clock stops at this time
MaxTime == 4

(***************************************************************************)
(* Python helpers on texts given as sequences of characters.               *)
(***************************************************************************)
Digits == {"0", "1", "2", "5"}

Whitespace == {" ", "\r"}

Min(a, b) == IF a < b THEN a ELSE b

Max(a, b) == IF a > b THEN a ELSE b

\* s[lo:hi] for lo >= 0 and any integer hi (negative hi counts from the end)
PySlice(s, lo, hi) ==
    LET n     == Len(s)
        start == Min(lo, n)
        stop  == IF hi < 0 THEN Max(n + hi, 0) ELSE Min(hi, n)
    IN  IF start < stop THEN SubSeq(s, start + 1, stop) ELSE <<>>

RECURSIVE LStrip(_)
LStrip(s) == IF s # <<>> /\ s[1] \in Whitespace THEN LStrip(Tail(s)) ELSE s

RECURSIVE RStrip(_)
RStrip(s) ==
    IF s # <<>> /\ s[Len(s)] \in Whitespace THEN RStrip(SubSeq(s, 1, Len(s) - 1)) ELSE s

\* str.strip()
Strip(s) == RStrip(LStrip(s))

RECURSIVE TakeWord(_)
TakeWord(s) ==
    IF s = <<>> \/ s[1] \in Whitespace THEN <<>> ELSE <<s[1]>> \o TakeWord(Tail(s))

\* s.split(): only its first element is used; <<>> stands for the empty list
FirstWord(s) == TakeWord(LStrip(s))

\* float(s) succeeds: optional sign, digits with at most one point, at least
\* one digit, surrounding whitespace ignored.  The alphabet of Replies has no
\* letter of an exponent, of inf or of nan, so no other accepted form occurs.
IsFloatText(s) ==
    LET t    == Strip(s)
        body == IF t # <<>> /\ t[1] \in {"-", "+"} THEN Tail(t) ELSE t
    IN  /\ \A i \in DOMAIN body : body[i] \in Digits \cup {"."}
        /\ \E i \in DOMAIN body : body[i] \in Digits
        /\ Cardinality({i \in DOMAIN body : body[i] = "."}) <= 1

\* the value float(s) yields, kept as its stripped text
FloatOf(s) == Strip(s)

\* int(c) of a one-character text succeeds
IsIntChar(c) == c \in Digits

IntOf(c) == CASE c = "0" -> 0 [] c = "1" -> 1 [] c = "2" -> 2 [] c = "5" -> 5

(***************************************************************************)
(* plh120-p.py: constants and initial state.                               *)
(***************************************************************************)
\* plh120_Protocol.status_commands
status_commands == <<"I1?", "V1?", "I1O?", "V1O?", "OP1?", "OVP1?", "OCP1?", "CONFIG?">>

\* np.nan, and the marker of a key the dictionary does not hold
NaN == <<"nan">>

Absent == <<"absent">>

\* a wrong reset: the connected indicator is left as it is
resetObjStatus_keepconn(o) ==
    [o EXCEPT !.I1 = NaN, !.V1 = NaN, !.I1O = NaN, !.V1O = NaN,
              !.VOut1 = 0, !.OVP1 = NaN, !.OCP1 = NaN]

\* resetObjStatus(obj): the keys it assigns
resetObjStatus(o) ==
    [o EXCEPT !.hw_connected = 0, !.I1 = NaN, !.V1 = NaN, !.I1O = NaN, !.V1O = NaN,
              !.VOut1 = 0, !.OVP1 = NaN, !.OCP1 = NaN]

\* obj = {} of __main__: no key present
EmptyObj ==
    [hw_connected |-> 0, I1 |-> Absent, V1 |-> Absent, I1O |-> Absent, V1O |-> Absent,
     VOut1 |-> 0, OVP1 |-> Absent, OCP1 |-> Absent,
     Current_Limit |-> Absent, Voltage |-> Absent, VoltageActual |-> Absent,
     CurrentActual |-> Absent, Vstatus |-> Absent]

\* the lines the clients send to the daemon (DaemonProtocol.processMessage),
\* each with the client that sends it
DaemonInputs ==
    { <<"c1", "get_status">>, <<"c1", "engage">>, <<"c1", "I1?">>,
      <<"c2", "op1 0">>, <<"c2", "X?">>, <<"c2", "SET 1">> }

\* device replies, as character sequences:  "I1 2\r", "2V\r", "1\r", ""
Replies ==
    { <<"I", "1", " ", "2", "\r">>, <<"2", "V", "\r">>, <<"1", "\r">>, <<>> }

\* last, for the daemon: the operation handled, whether the queue held both
\* sent and unsent entries before it, whether the queue was empty before it,
\* and whether it ended without an exception
NoOp == [op |-> "init", mixed |-> FALSE, empty |-> TRUE, ok |-> TRUE]

Mixed(q) == (\E i \in DOMAIN q : q[i].sent) /\ (\E i \in DOMAIN q : ~q[i].sent)

Op(name, ok) ==
    [op |-> name, mixed |-> Mixed(commands), empty |-> (commands = <<>>), ok |-> ok]

HWInit ==
    /\ link = FALSE
    /\ commands = <<>>
    /\ obj = resetObjStatus(EmptyObj)
    /\ hwout = <<>>
    /\ fwd = <<>>

(***************************************************************************)
(* monitor.py: texts, commands and configuration.                          *)
(***************************************************************************)
\* Python's None (a name or type never given)
None == "<None>"

\* the text of a character sequence
RECURSIVE Text(_)
Text(s) == IF s = <<>> THEN "" ELSE s[1] \o Text(Tail(s))

\* sep.join(parts) for a sequence of strings
RECURSIVE Join(_, _)
Join(parts, sep) ==
    IF parts = <<>> THEN ""
    ELSE IF Len(parts) = 1 THEN parts[1]
    ELSE parts[1] \o sep \o Join(Tail(parts), sep)

\* a positional token and a key=value token of a line
P(s) == [text |-> s, key |-> "", val |-> <<>>]

KV(k, v) == [text |-> k \o "=" \o Text(v), key |-> k, val |-> v]

\* Command(string): chunks holds every token, kwargs the key=value tokens in
\* order; a blank line has no name.  (command.py is not among the sources:
\* written from the description of the parser.  Keys of a line are unique.)
Command(line) ==
    LET kv == SelectSeq(line, LAMBDA t : t.key # "")
    IN  [name   |-> IF line = <<>> THEN None ELSE line[1].text,
         chunks |-> [i \in DOMAIN line |-> line[i].text],
         kwargs |-> [i \in DOMAIN kv |-> [k |-> kv[i].key, v |-> kv[i].val]]]

\* kwargs has key k
HasKey(kwargs, k) == \E i \in DOMAIN kwargs : kwargs[i].k = k

\* kwargs[k] for a key it has
Lookup(kwargs, k) == kwargs[CHOOSE i \in DOMAIN kwargs : kwargs[i].k = k].v

\* cmd.get(k, None) as a text
GetText(kwargs, k) == IF HasKey(kwargs, k) THEN Text(Lookup(kwargs, k)) ELSE None

\* obj['clients']: the configured peer names, in configuration order
ClientList == <<"ccd1", "hw">>

Clients == {ClientList[i] : i \in DOMAIN ClientList}

\* the variables of each peer's plots (the keys of obj['values'][name])
TrackedVars == [name \in Clients |-> IF name = "ccd1" THEN {"time", "temp"} ELSE {}]

\* the MonitorProtocol objects that can exist at one time
ConnIds == {1, 2}

\* the length a history buffer may not exceed, and the number of oldest
\* samples dropped when it does
HistCap == 1000

HistDrop == 100

\* db_status_interval of __main__ (60.0 s), in units of the clock
DefaultInterval == 1

\* datetime.utcfromtimestamp(0), long before the clock's origin
Epoch == 0 - 100

\* A history buffer is the list  filler * fill  followed by tail; the filler
\* is the clock's origin for "time" and the absent value for other variables.
NoSample == [kind |-> "none", v |-> <<>>]

EmptyHist == [fill |-> 0, tail |-> <<>>]

HLen(h) == h.fill + Len(h.tail)

\* list.append(x)
HAppend(h, x) == [h EXCEPT !.tail = Append(@, x)]

\* h[k:]
HDropFront(h, k) ==
    IF k <= h.fill THEN [h EXCEPT !.fill = @ - k]
    ELSE [fill |-> 0, tail |-> SubSeq(h.tail, k - h.fill + 1, Len(h.tail))]

\* lines a peer sends to the monitor
L_id_ccd == <<P("id"), KV("name", <<"c", "c", "d", "1">>), KV("type", <<"c", "c", "d">>)>>

L_id_hw == <<P("id"), KV("name", <<"h", "w">>)>>

L_id_bare == <<P("id")>>

L_status_full ==
    <<P("status"), KV("temp", <<"2", "0", ".", "5">>), KV("state", <<"i", "d", "l", "e">>)>>

L_status_x == <<P("status"), KV("temp", <<"x">>)>>

L_status_none == <<P("status")>>

L_get_status == <<P("get_status")>>

L_get_status_json == <<P("get_status"), KV("format", <<"j", "s", "o", "n">>)>>

L_send_hw == <<P("send"), P("hw"), P("OP1"), P("1")>>

L_send_ccd == <<P("send"), P("ccd1"), P("get_status"), KV("format", <<"j", "s", "o", "n">>)>>

L_send_nobody == <<P("send"), P("nobody"), P("X")>>

L_send_bare == <<P("send")>>

L_reset_plots == <<P("reset_plots")>>

L_info == <<P("info"), P("hello")>>

L_blank == <<>>

L_broadcast == <<P("broadcast"), P("stop")>>

L_set_interval == <<P("set"), KV("interval", <<"2">>)>>

L_set_interval_0 == <<P("set"), KV("interval", <<"0">>)>>

PeerLines ==
    {L_id_ccd, L_id_hw, L_id_bare, L_status_full, L_status_x, L_status_none,
     L_get_status, L_get_status_json, L_send_hw, L_send_nobody, L_send_bare,
     L_reset_plots, L_info}

ConsoleLines == {L_send_hw, L_get_status, L_reset_plots, L_blank}

WebLines == {L_send_ccd, L_send_nobody, L_broadcast, L_reset_plots}

\* the lines of the runs that follow the clock and the database
DBPeerLines == {L_id_hw, L_status_x, L_status_none}

DBWebLines == {L_set_interval, L_set_interval_0}

\* the lines of the runs that follow the history buffers
HistPeerLines ==
    {L_id_ccd, L_id_hw, L_status_x, L_status_none, L_reset_plots, L_info, L_get_status}

HistConsoleLines == {L_reset_plots, L_send_hw}

HistWebLines == {L_reset_plots, L_broadcast}

\* last, for the monitor: who acted (src: "peer", "console", "web", "link"),
\* the command name or event, the connection concerned (0: none) and,
\* for a status command, whether the previous snapshot held a key the new
\* one lacks
MonNoOp == [src |-> "init", op |-> "", conn |-> 0, dropped |-> FALSE]

MonOp(src, name, conn, dropped) ==
    [src |-> src, op |-> name, conn |-> conn, dropped |-> dropped]

\* the monitor before any connection, with empty history buffers
MonIdle ==
    /\ connections = <<>>
    /\ values = [name \in Clients |-> [var \in TrackedVars[name] |-> EmptyHist]]
    /\ now = 0
    /\ db = FALSE
    /\ db_status_timestamp = Epoch
    /\ db_status_interval = DefaultInterval
    /\ out = <<>>
    /\ dbq = <<>>

\* the monitor run as a server (web endpoint and database configured) with
\* no connection; the history buffers are empty, or hold the HistCap - 1 or
\* HistCap samples of as many earlier status commands without values (their
\* peer has disconnected since, and the last database write is long ago)
MonInit ==
    /\ connections = <<>>
    /\ \E n \in {0, HistCap - 1, HistCap} :
          values = [name \in Clients |->
                       [var \in TrackedVars[name] |-> [fill |-> n, tail |-> <<>>]]]
    /\ now = 0
    /\ db = TRUE
    /\ db_status_timestamp = Epoch
    /\ db_status_interval = DefaultInterval
    /\ out = <<>>
    /\ dbq = <<>>

\* the monitor as just started as a server: no connection, empty buffers
MonInitDB ==
    /\ connections = <<>>
    /\ values = [name \in Clients |-> [var \in TrackedVars[name] |-> EmptyHist]]
    /\ now = 0
    /\ db = TRUE
    /\ db_status_timestamp = Epoch
    /\ db_status_interval = DefaultInterval
    /\ out = <<>>
    /\ dbq = <<>>

\* the monitor as a server whose configuration has plots for both peers
\* (hw with the single variable time), with no connection; the buffers are
\* empty or hold HistCap samples of earlier status commands
MonInitHist ==
    /\ connections = <<>>
    /\ \E n \in {0, HistCap} :
          values = [name \in Clients |->
                       [var \in TrackedVars[name] \cup {"time"} |-> [fill |-> n, tail |-> <<>>]]]
    /\ now = 0
    /\ db = TRUE
    /\ db_status_timestamp = Epoch
    /\ db_status_interval = DefaultInterval
    /\ out = <<>>
    /\ dbq = <<>>

Init == HWInit /\ MonIdle /\ last = NoOp

InitHist == HWInit /\ MonInitHist /\ last = MonNoOp

InitDB == HWInit /\ MonInitDB /\ last = MonNoOp

InitMon == HWInit /\ MonInit /\ last = MonNoOp

(***************************************************************************)
(* plh120_Protocol                                                         *)
(***************************************************************************)
\* plh120_Protocol.connectionMade
hwConnectionMade ==
    /\ ~link
    /\ link' = TRUE
    /\ commands' = <<>>
    /\ obj' = [obj EXCEPT !.hw_connected = 1]
    /\ hwout' = <<"*RST">>
    /\ fwd' = <<>>
    /\ last' = Op("connectionMade", TRUE)
    /\ UNCHANGED monvars

\* plh120_Protocol.connectionLost
hwConnectionLost ==
    /\ link
    /\ link' = FALSE
    /\ commands' = <<>>
    /\ obj' = resetObjStatus(obj)
    /\ hwout' = <<>>
    /\ fwd' = <<>>
    /\ last' = Op("connectionLost", TRUE)
    /\ UNCHANGED monvars

\* a wrong message(): the new entry goes to the head of the queue
InsertPos_head(q) == 0

\* the insertion index of message(): the number of leading sent entries
RECURSIVE InsertPos(_)
InsertPos(q) == IF q # <<>> /\ q[1].sent THEN 1 + InsertPos(Tail(q)) ELSE 0

\* list.insert(n, e)
ListInsert(q, n, e) == SubSeq(q, 1, n) \o <<e>> \o SubSeq(q, n + 1, Len(q))

\* The id of an entry is not in the program: it records the order in which
\* the entries of the queue were enqueued through message() (0: a poll entry;
\* 1: the oldest message() entry of the queue; and so on).
UserEntries(q) == {i \in DOMAIN q : q[i].id # 0}

\* q with the ids of its message() entries renumbered 1, 2, ... in their order
Renumber(q) ==
    [i \in DOMAIN q |->
        IF q[i].id = 0 THEN q[i]
        ELSE [q[i] EXCEPT !.id = Cardinality({j \in UserEntries(q) : q[j].id <= q[i].id})]]

\* plh120_Protocol.message(string, keep, source) on queue q
message(q, string, keep, source) ==
    ListInsert(Renumber(q), InsertPos(q),
               [cmd |-> string, source |-> source, keep |-> keep, sent |-> FALSE,
                id |-> Cardinality(UserEntries(q)) + 1])

\* a wrong refill: the poll commands are not marked as expecting a reply
PollBatch_nokeep ==
    [i \in DOMAIN status_commands |->
        [cmd |-> status_commands[i], source |-> "itself", keep |-> FALSE, sent |-> FALSE,
         id |-> 0]]

\* the batch update() appends to an empty queue
PollBatch ==
    [i \in DOMAIN status_commands |->
        [cmd |-> status_commands[i], source |-> "itself", keep |-> TRUE, sent |-> FALSE,
         id |-> 0]]

\* a wrong update: the transmitted head is marked sent whatever its keep flag
AfterTransmit_nopop(q) == [q EXCEPT ![1].sent = TRUE]

\* a wrong update: the transmitted head is popped whatever its keep flag
AfterTransmit_pop(q) == Tail(q)

\* update(), after the head of q has been transmitted: a fire-and-forget
\* entry is popped, an entry that expects a reply is marked sent
AfterTransmit(q) == IF ~q[1].keep THEN Tail(q) ELSE [q EXCEPT ![1].sent = TRUE]

\* a wrong update: the head is transmitted again at every tick until its
\* reply arrives
ShouldTransmit_retry(q) == Len(q) > 0

\* update transmits: len(self.commands) and not self.commands[0]['sent']
ShouldTransmit(q) == Len(q) > 0 /\ ~q[1].sent

\* a wrong update: the connected indicator is not consulted
NotConnected_ignored(o) == FALSE

\* update returns at once: self.object['hw_connected'] == 0
NotConnected(o) == o.hw_connected = 0

\* plh120_Protocol.update
update ==
    /\ last' = Op("update", TRUE)
    /\ UNCHANGED monvars
    /\ fwd' = <<>>
    /\ UNCHANGED <<link, obj>>
    /\ IF NotConnected(obj)
       THEN /\ hwout' = <<>>
            /\ UNCHANGED commands
       ELSE IF ShouldTransmit(commands)
       THEN /\ hwout' = <<commands[1].cmd>>
            /\ commands' = AfterTransmit(commands)
       ELSE IF Len(commands) = 0
       THEN /\ hwout' = <<>>
            /\ commands' = PollBatch
       ELSE /\ hwout' = <<>>
            /\ UNCHANGED commands

\* the conversions of processMessage for head command ccmd and reply string:
\* [raised |-> the conversion raises, key |-> the key assigned, val |-> its value]
Assign(k, v) == [raised |-> FALSE, key |-> k, val |-> v]

Raise == [raised |-> TRUE, key |-> "", val |-> <<>>]

\* a wrong handler: a reply that no conversion applies to is an error
Nothing_raise == Raise

Nothing == [raised |-> FALSE, key |-> "", val |-> <<>>]

ParseFloat(k, s) == IF IsFloatText(s) THEN Assign(k, FloatOf(s)) ELSE Raise

ParseReply(ccmd, string) ==
    CASE ccmd = "I1?"   -> ParseFloat("Current_Limit", PySlice(string, 3, -1))
      [] ccmd = "V1?"   -> ParseFloat("Voltage", PySlice(string, 3, -1))
      [] ccmd = "V1O?"  -> ParseFloat("VoltageActual", PySlice(string, 0, -2))
      [] ccmd = "I1O?"  -> ParseFloat("CurrentActual", PySlice(string, 0, -2))
      [] ccmd = "OP1?"  -> IF string # <<>> /\ IsIntChar(string[1])
                           THEN Assign("VOut1", IntOf(string[1])) ELSE Raise
      [] ccmd = "OVP1?" -> LET w == FirstWord(PySlice(string, 0, -1))
                           IN  IF w # <<>> THEN ParseFloat("OVP1", w) ELSE Raise
      [] ccmd = "OCP1?" -> LET w == FirstWord(PySlice(string, 0, -1))
                           IN  IF w # <<>> THEN ParseFloat("OCP1", w) ELSE Raise
      [] OTHER          -> Nothing

\* the queue after the reply has been handled without an exception
PopHead(q) == Tail(q)

\* plh120_Protocol.processMessage(string)
hwProcessMessage(string) ==
    LET obj1 == [obj EXCEPT !.hw_connected = 1]
        r    == IF commands = <<>> THEN Nothing ELSE ParseReply(commands[1].cmd, string)
    IN  /\ link
        /\ hwout' = <<>>
        /\ UNCHANGED link
        /\ last' = Op("processMessage", ~r.raised)
        /\ UNCHANGED monvars
        /\ IF commands = <<>> \/ r.raised
           THEN /\ obj' = obj1
                /\ fwd' = <<>>
                /\ UNCHANGED commands
           ELSE /\ obj' = IF r.key = "" THEN obj1 ELSE [obj1 EXCEPT ![r.key] = r.val]
                /\ fwd' = IF commands[1].source # "itself"
                          THEN <<[to |-> commands[1].source, text |-> string]>>
                          ELSE <<>>
                /\ commands' = PopHead(commands)

(***************************************************************************)
(* DaemonProtocol                                                          *)
(***************************************************************************)
\* string.upper() matches \:?ENGAGE or \:?OP1.1 at its start
IsEngage(line) == line \in {"engage"}

\* string.upper() matches \:?DISENGAGE or \:?OP1.0 at its start
IsDisengage(line) == line \in {"op1 0"}

\* STRING[-1] == '?'
IsQuery(line) == line \in {"I1?", "X?"}

\* the reply to get_status: the values the format string reads
StatusLine(o) ==
    [hw_connected |-> o.hw_connected, Voltage |-> o.V1, VoltageActual |-> o.V1O,
     Current_Limit |-> o.I1, CurrentActual |-> o.I1O, Vstatus |-> o.VOut1,
     OVP1 |-> o.OVP1, OCP1 |-> o.OCP1]

\* hw.messageAll(string, type='hw', keep=keep, source=source): the hardware
\* factory holds the plh120_Protocol while the link is up
hwMessageAll(string, keep, source) ==
    IF link
    THEN /\ Cardinality(UserEntries(commands)) < MaxPending
         /\ commands' = message(commands, string, keep, source)
    ELSE UNCHANGED commands

\* DaemonProtocol.processMessage(string) of the client named src
daemonProcessMessage(src, line) ==
    /\ hwout' = <<>>
    /\ UNCHANGED link
    /\ last' = Op("daemonMessage", TRUE)
    /\ UNCHANGED monvars
    /\ IF line = "get_status"
       THEN /\ fwd' = <<[to |-> src, text |-> StatusLine(obj)]>>
            /\ UNCHANGED <<commands, obj>>
       ELSE IF IsEngage(line)
       THEN /\ hwMessageAll("OP1 1\n", FALSE, src)
            /\ obj' = [obj EXCEPT !.Vstatus = <<"1">>]
            /\ fwd' = <<>>
       ELSE IF IsDisengage(line)
       THEN /\ hwMessageAll("OP1 0\n", FALSE, src)
            /\ obj' = [obj EXCEPT !.Vstatus = <<"0">>]
            /\ fwd' = <<>>
       ELSE /\ hwMessageAll(line, IsQuery(line), src)
            /\ fwd' = <<>>
            /\ UNCHANGED obj

HWNext ==
    \/ hwConnectionMade
    \/ hwConnectionLost
    \/ update
    \/ \E string \in Replies : hwProcessMessage(string)
    \/ \E in \in DaemonInputs : daemonProcessMessage(in[1], in[2])

SpecHW == Init /\ [][HWNext]_vars

\* the device answers the entry in flight with a line its conversion accepts
DeviceReply(string) ==
    /\ commands # <<>>
    /\ commands[1].sent
    /\ ~ParseReply(commands[1].cmd, string).raised
    /\ hwProcessMessage(string)

\* the daemon on a link that stays up, with a device that answers every
\* transmitted query and sends nothing else
LiveNext ==
    \/ hwConnectionMade
    \/ update
    \/ \E string \in Replies : DeviceReply(string)
    \/ \E in \in DaemonInputs : daemonProcessMessage(in[1], in[2])

\* the link is made, update is called periodically (_refresh) and the
\* device eventually answers the entry in flight
SpecLive ==
    /\ Init
    /\ [][LiveNext]_vars
    /\ WF_vars(hwConnectionMade)
    /\ WF_vars(update)
    /\ WF_vars(\E string \in Replies : DeviceReply(string))

(***************************************************************************)
(* SimpleFactory / MonitorFactory                                          *)
(***************************************************************************)
\* SimpleFactory.findConnection(name=name): the index of the first connection
\* of that name, 0 when there is none.  (daemon.py is not among the sources:
\* written from the description of findByName.)
findConnection(conns, name) ==
    IF \E i \in DOMAIN conns : conns[i].name = name
    THEN CHOOSE i \in DOMAIN conns :
            /\ conns[i].name = name
            /\ \A j \in DOMAIN conns : conns[j].name = name => i <= j
    ELSE 0

\* SimpleFactory.messageAll(string, type=type): one message to every connection
\* of that type (from the description of broadcast)
messageAllType(conns, string, type) ==
    LET hit == SelectSeq(conns, LAMBDA c : c.type = type)
    IN  [i \in DOMAIN hit |-> [to |-> hit[i].id, text |-> string]]

\* SimpleFactory.messageAll(string): one message to every connection
messageAll(conns, string) == [i \in DOMAIN conns |-> [to |-> conns[i].id, text |-> string]]

\* kwargsToString(kwargs, prefix)
kwargsToString(kwargs, prefix) ==
    Join([i \in DOMAIN kwargs |-> prefix \o kwargs[i].k \o "=" \o Text(kwargs[i].v)], " ")

\* a wrong getStatus: only the connected clients get an entry
getStatus_connected(conns, interval) ==
    [key \in {"nconnected", "db_status_interval"}
                 \cup {n \in Clients : findConnection(conns, n) # 0} |->
        IF key = "nconnected" THEN Len(conns)
        ELSE IF key = "db_status_interval" THEN interval
        ELSE conns[findConnection(conns, key)].status]

\* MonitorFactory.getStatus(as_dict=True)
getStatus(conns, interval) ==
    [key \in {"nconnected", "db_status_interval"} \cup Clients |->
        IF key = "nconnected" THEN Len(conns)
        ELSE IF key = "db_status_interval" THEN interval
        ELSE IF findConnection(conns, key) # 0
             THEN conns[findConnection(conns, key)].status
             ELSE <<>>]

\* MonitorFactory.getStatus(): the part of the line added for each client
RECURSIVE ClientsText(_, _)
ClientsText(conns, names) ==
    IF names = <<>> THEN ""
    ELSE LET i == findConnection(conns, names[1])
         IN  (IF i # 0
              THEN " " \o conns[i].name \o "=1 "
                       \o kwargsToString(conns[i].status, conns[i].name \o ".")
              ELSE " " \o names[1] \o "=0")
             \o ClientsText(conns, Tail(names))

\* MonitorFactory.getStatus(as_dict=False)
getStatusText(conns, interval) ==
    "status nconnected=" \o ToString(Len(conns)) \o " db_status_interval="
        \o ToString(interval) \o ClientsText(conns, ClientList)

\* MonitorFactory.reset_plots: every buffer becomes empty
reset_plots(vals) == [name \in DOMAIN vals |-> [var \in DOMAIN vals[name] |-> EmptyHist]]

(***************************************************************************)
(* MonitorProtocol                                                         *)
(***************************************************************************)
IndexOf(conns, id) == CHOOSE i \in DOMAIN conns : conns[i].id = id

LiveIds == {connections[i].id : i \in DOMAIN connections}

\* MonitorProtocol.connectionMade after MonitorProtocol.__init__
monConnectionMade(id) ==
    /\ id \notin LiveIds
    /\ connections' = Append(connections, [id |-> id, name |-> None, type |-> None,
                                           status |-> <<>>])
    /\ out' = <<[to |-> id, text |-> "id name=monitor"], [to |-> id, text |-> "get_id"]>>
    /\ dbq' = <<>>
    /\ UNCHANGED hwvars
    /\ last' = MonOp("link", "connectionMade", id, FALSE)
    /\ UNCHANGED <<values, now, db, db_status_timestamp, db_status_interval>>

\* MonitorProtocol.connectionLost
monConnectionLost(id) ==
    /\ id \in LiveIds
    /\ connections' = SelectSeq(connections, LAMBDA c : c.id # id)
    /\ out' = <<>>
    /\ dbq' = <<>>
    /\ UNCHANGED hwvars
    /\ last' = MonOp("link", "connectionLost", id, FALSE)
    /\ UNCHANGED <<values, now, db, db_status_timestamp, db_status_interval>>

\* MonitorProtocol.update
monUpdate(id) ==
    /\ id \in LiveIds
    /\ LET c == connections[IndexOf(connections, id)]
       IN  out' = IF c.name # None \/ c.type # None
                  THEN <<[to |-> id, text |-> "get_status"]>> ELSE <<>>
    /\ dbq' = <<>>
    /\ UNCHANGED hwvars
    /\ last' = MonOp("link", "update", id, FALSE)
    /\ UNCHANGED <<connections, values, now, db, db_status_timestamp, db_status_interval>>

\* the sample of variable var recorded for status snapshot st
Sample(var, st) ==
    IF var = "time" THEN now
    ELSE IF ~HasKey(st, var) THEN NoSample
    ELSE IF IsFloatText(Lookup(st, var))
         THEN [kind |-> "float", v |-> FloatOf(Lookup(st, var))]
         ELSE [kind |-> "str", v |-> Lookup(st, var)]

\* a wrong cap: the buffer is never shortened
Record_nocap(h, x) == HAppend(h, x)

\* one buffer after a status command: append, then drop the oldest HistDrop
\* samples if the buffer is longer than HistCap
Record(h, x) ==
    LET h1 == HAppend(h, x)
    IN  IF HLen(h1) > HistCap THEN HDropFront(h1, HistDrop) ELSE h1

\* a wrong status handler: the sample is recorded for every configured peer
RecordStatus_all(vals, name, st) ==
    IF name \in DOMAIN vals
    THEN [n \in DOMAIN vals |-> [var \in DOMAIN vals[n] |->
                                    Record(vals[n][var], Sample(var, st))]]
    ELSE vals

\* a wrong status handler: a variable the status lacks gets no sample
RecordStatus_skip(vals, name, st) ==
    IF name \in DOMAIN vals
    THEN [vals EXCEPT ![name] = [var \in DOMAIN vals[name] |->
                                    IF var = "time" \/ HasKey(st, var)
                                    THEN Record(vals[name][var], Sample(var, st))
                                    ELSE vals[name][var]]]
    ELSE vals

\* obj['values'] after a status command of the connection named name
RecordStatus(vals, name, st) ==
    IF name \in DOMAIN vals
    THEN [vals EXCEPT ![name] = [var \in DOMAIN vals[name] |->
                                    Record(vals[name][var], Sample(var, st))]]
    ELSE vals

\* the keyword broadcast of a status command: "set_keywords " + " ".join(...)
KeywordsText(name, st) ==
    "set_keywords "
        \o Join([i \in DOMAIN st |-> name \o "." \o st[i].k \o "=\"" \o Text(st[i].v) \o "\""],
                " ")

\* a wrong status handler: the new keys are merged into the old snapshot
NewSnapshot_merge(old, kwargs) ==
    kwargs \o SelectSeq(old, LAMBDA e : ~HasKey(kwargs, e.k))

\* self.status = cmd.kwargs
NewSnapshot(old, kwargs) == kwargs

\* a wrong status handler: every status command is broadcast
Broadcasts_always(c) == TRUE

\* the status command of connection c is broadcast: self.type != 'ccd'
Broadcasts(c) == c.type # "ccd"

\* the branch of MonitorProtocol.processMessage for a status command
monStatus(id, line) ==
    LET i    == IndexOf(connections, id)
        c    == connections[i]
        cmd  == Command(line)
        st   == NewSnapshot(c.status, cmd.kwargs)
        cs   == [connections EXCEPT ![i].status = st]
        \* self.name + '.' raises for a connection without a name
        bad  == Broadcasts(c) /\ c.name = None /\ st # <<>>
        due  == db /\ now - db_status_timestamp > db_status_interval
    IN  /\ \A var \in (IF c.name \in DOMAIN values THEN DOMAIN values[c.name] ELSE {}) :
              Len(values[c.name][var].tail) < MaxTail
        /\ connections' = cs
        /\ values' = RecordStatus(values, c.name, st)
        /\ out' = IF Broadcasts(c) /\ ~bad
                  THEN messageAllType(cs, KeywordsText(c.name, st), "ccd") ELSE <<>>
        /\ IF due /\ ~bad
           THEN /\ dbq' = <<[time |-> now, status |-> getStatus(cs, db_status_interval)]>>
                /\ db_status_timestamp' = now
           ELSE /\ dbq' = <<>>
                /\ UNCHANGED db_status_timestamp
        /\ UNCHANGED hwvars
        /\ last' = MonOp("peer", "status", id,
                         \E j \in DOMAIN c.status : ~HasKey(st, c.status[j].k))
        /\ UNCHANGED <<now, db, db_status_interval>>

\* a wrong send: the name stays in the payload
sendTo_withname(cmd) ==
    IF Len(cmd.chunks) < 2 THEN <<>>
    ELSE LET i == findConnection(connections, cmd.chunks[2])
         IN  IF i # 0
             THEN <<[to |-> connections[i].id,
                     text |-> Join(SubSeq(cmd.chunks, 2, Len(cmd.chunks)), " ")]>>
             ELSE <<>>

\* a wrong send: a name nobody has falls back to the first connection
sendTo_fallback(cmd) ==
    IF Len(cmd.chunks) < 2 THEN <<>>
    ELSE LET i == findConnection(connections, cmd.chunks[2])
         IN  IF i # 0
             THEN <<[to |-> connections[i].id,
                     text |-> Join(SubSeq(cmd.chunks, 3, Len(cmd.chunks)), " ")]>>
             ELSE IF connections = <<>> THEN <<>>
             ELSE <<[to |-> connections[1].id,
                     text |-> Join(SubSeq(cmd.chunks, 3, Len(cmd.chunks)), " ")]>>

\* the send branch, spelled alike in the three command handlers:
\* cmd.chunks[1] raises for a send without a target
sendTo(cmd) ==
    IF Len(cmd.chunks) < 2 THEN <<>>
    ELSE LET i == findConnection(connections, cmd.chunks[2])
         IN  IF i # 0
             THEN <<[to |-> connections[i].id,
                     text |-> Join(SubSeq(cmd.chunks, 3, Len(cmd.chunks)), " ")]>>
             ELSE <<>>

\* MonitorProtocol.processMessage(string) of connection id
monProcessMessage(id, line) ==
    LET i   == IndexOf(connections, id)
        c   == connections[i]
        cmd == Command(line)
    IN  /\ id \in LiveIds
        /\ IF cmd.name = "status" THEN monStatus(id, line)
           ELSE /\ last' = MonOp("peer", cmd.name, id, FALSE)
                /\ UNCHANGED hwvars
                /\ dbq' = <<>>
                /\ UNCHANGED <<now, db, db_status_timestamp, db_status_interval>>
                /\ IF cmd.name = "id"
                   THEN /\ connections' = [connections EXCEPT
                                              ![i].name = GetText(cmd.kwargs, "name"),
                                              ![i].type = GetText(cmd.kwargs, "type")]
                        /\ out' = <<>>
                        /\ UNCHANGED values
                   ELSE IF cmd.name = "get_status"
                   THEN /\ out' = IF GetText(cmd.kwargs, "format") = "json"
                                  THEN <<[to |-> id, text |-> "status_json",
                                          json |-> getStatus(connections, db_status_interval)]>>
                                  ELSE <<[to |-> id,
                                          text |-> getStatusText(connections, db_status_interval)]>>
                        /\ UNCHANGED <<connections, values>>
                   ELSE IF cmd.name = "send"
                   THEN /\ out' = sendTo(cmd)
                        /\ UNCHANGED <<connections, values>>
                   ELSE IF cmd.name = "reset_plots"
                   THEN /\ values' = reset_plots(values)
                        /\ out' = <<>>
                        /\ UNCHANGED connections
                   ELSE /\ out' = <<>>
                        /\ UNCHANGED <<connections, values>>

(***************************************************************************)
(* CmdlineProtocol and WebMonitor                                          *)
(***************************************************************************)
\* the listing of the clients command (also run for a blank line)
ClientsListing ==
    [n \in DOMAIN ClientList |->
        [to |-> 0,
         text |-> "name:" \o ClientList[n] \o " connected:"
                      \o (IF findConnection(connections, ClientList[n]) # 0
                          THEN "True" ELSE "False")]]

\* CmdlineProtocol.lineReceived(line)
lineReceived(line) ==
    LET cmd == Command(line)
    IN  /\ last' = MonOp("console", cmd.name, 0, FALSE)
        /\ UNCHANGED hwvars
        /\ dbq' = <<>>
        /\ UNCHANGED <<connections, now, db, db_status_timestamp, db_status_interval>>
        /\ IF cmd.name = "clients" \/ cmd.name = None
           THEN out' = ClientsListing /\ UNCHANGED values
           ELSE IF cmd.name = "send"
           THEN out' = sendTo(cmd) /\ UNCHANGED values
           ELSE IF cmd.name = "get_status"
           THEN /\ out' = <<[to |-> 0, text |-> getStatusText(connections, db_status_interval)]>>
                /\ UNCHANGED values
           ELSE IF cmd.name = "reset_plots"
           THEN out' = <<>> /\ values' = reset_plots(values)
           ELSE out' = <<>> /\ UNCHANGED values

\* float(cmd.get('interval')) for the one-digit values of WebLines
IntervalOf(v) == IntOf(v[1])

\* WebMonitor.render_GET for /monitor/command?string=line
render_GET(line) ==
    LET cmd == Command(line)
    IN  /\ last' = MonOp("web", cmd.name, 0, FALSE)
        /\ UNCHANGED hwvars
        /\ dbq' = <<>>
        /\ UNCHANGED <<connections, now, db, db_status_timestamp>>
        /\ IF cmd.name = "send"
           THEN out' = sendTo(cmd) /\ UNCHANGED <<values, db_status_interval>>
           ELSE IF cmd.name \in {"broadcast", "send_all"}
           THEN /\ out' = messageAll(connections,
                                     Join(SubSeq(cmd.chunks, 2, Len(cmd.chunks)), " "))
                /\ UNCHANGED <<values, db_status_interval>>
           ELSE IF cmd.name = "set"
           THEN /\ db_status_interval' =
                       IF HasKey(cmd.kwargs, "interval")
                       THEN IntervalOf(Lookup(cmd.kwargs, "interval"))
                       ELSE db_status_interval
                /\ out' = <<>>
                /\ UNCHANGED values
           ELSE IF cmd.name = "reset_plots"
           THEN out' = <<>> /\ values' = reset_plots(values) /\ UNCHANGED db_status_interval
           ELSE out' = <<>> /\ UNCHANGED <<values, db_status_interval>>

MonNext ==
    \/ \E id \in ConnIds : monConnectionMade(id)
    \/ \E id \in ConnIds : monConnectionLost(id)
    \/ \E id \in ConnIds : monUpdate(id)
    \/ \E id \in ConnIds, line \in PeerLines : monProcessMessage(id, line)
    \/ \E line \in ConsoleLines : lineReceived(line)
    \/ \E line \in WebLines : render_GET(line)

SpecMon == InitMon /\ [][MonNext]_vars

\* the clock of datetime.datetime.utcnow() advances
Tick ==
    /\ now < MaxTime
    /\ now' = now + 1
    /\ out' = <<>>
    /\ dbq' = <<>>
    /\ last' = MonOp("clock", "tick", 0, FALSE)
    /\ UNCHANGED hwvars
    /\ UNCHANGED <<connections, values, db, db_status_timestamp, db_status_interval>>

\* the monitor as a server, with its clock
DBNext ==
    \/ Tick
    \/ \E id \in ConnIds : monConnectionMade(id)
    \/ \E id \in ConnIds : monConnectionLost(id)
    \/ \E id \in ConnIds, line \in DBPeerLines : monProcessMessage(id, line)
    \/ \E line \in DBWebLines : render_GET(line)

SpecDB == InitDB /\ [][DBNext]_vars

\* the monitor as a server, with plots configured for both peers
HistNext ==
    \/ \E id \in ConnIds : monConnectionMade(id)
    \/ \E id \in ConnIds : monConnectionLost(id)
    \/ \E id \in ConnIds, line \in HistPeerLines : monProcessMessage(id, line)
    \/ \E line \in HistConsoleLines : lineReceived(line)
    \/ \E line \in HistWebLines : render_GET(line)

SpecHist == InitHist /\ [][HistNext]_vars

(***************************************************************************)
(* Properties of the outbound queue (SpecHW).                              *)
(***************************************************************************)
\* the entries of the queue that message() enqueued with keep=true
KeptEntries == {i \in DOMAIN commands : commands[i].id # 0 /\ commands[i].keep}

\* C1: FIFO correlation.  Of two commands enqueued with keep=true through
\* message(), the one enqueued first is transmitted first and is the one the
\* next reply is matched to: the entry in flight at the head of the queue is
\* never younger than an entry of the queue that was not transmitted yet.
C1_FifoCorrelation ==
    \A i, j \in KeptEntries :
        (commands[i].sent /\ ~commands[j].sent) => commands[i].id < commands[j].id

\* every entry with sent=true precedes every entry with sent=false
SentBeforeUnsent ==
    \A i, j \in DOMAIN commands : (commands[i].sent /\ ~commands[j].sent) => i < j

\* the fields of a queue entry
Fields(e) == [cmd |-> e.cmd, source |-> e.source, keep |-> e.keep, sent |-> e.sent]

\* a step of message() leaves every sent entry where it was
EnqueueKeepsSent ==
    (last'.op = "daemonMessage" /\ Len(commands') = Len(commands) + 1)
        => \A i \in DOMAIN commands :
               commands[i].sent => Fields(commands'[i]) = Fields(commands[i])

\* C2: in every reachable state of the outbound queue every entry with
\* sent=true precedes every entry with sent=false, and enqueueing never places
\* the new entry in front of an entry with sent=true.
C2_SentPrefix == [](SentBeforeUnsent) /\ [][EnqueueKeepsSent]_vars

\* a command has just been enqueued right behind the entry in flight and in
\* front of entries that wait
C2_Witness ==
    /\ last.op = "daemonMessage"
    /\ Len(commands) >= 3
    /\ commands[1].sent
    /\ ~commands[2].sent
    /\ \A i \in DOMAIN commands : commands[i].id <= commands[2].id
    /\ ~commands[3].sent

\* C3: at most one entry of the queue is awaiting a reply (sent=true), it is
\* the head entry, and no entry with keep=false has sent=true.
C3_OneInFlight ==
    /\ Cardinality({i \in DOMAIN commands : commands[i].sent}) <= 1
    /\ \A i \in DOMAIN commands : commands[i].sent => i = 1
    /\ \A i \in DOMAIN commands : commands[i].sent => commands[i].keep

\* update has just transmitted the head, which awaits its reply in front of
\* other entries
C3_Witness ==
    /\ last.op = "update"
    /\ Len(commands) >= 2
    /\ commands[1].sent /\ commands[1].keep
    /\ hwout = <<commands[1].cmd>>

\* C4: every reply handled by processMessage while the queue is not empty
\* removes exactly the head entry, whatever the content of the reply.
C4_ReplyPopsHead ==
    [][(last'.op = "processMessage" /\ commands # <<>>) => commands' = Tail(commands)]_vars

\* C6: handling link loss leaves the outbound queue empty and the
\* hw_connected indicator equal to 0.
C6_LossClears ==
    last.op = "connectionLost" => (commands = <<>> /\ obj.hw_connected = 0)

\* the link has just been lost with an entry in flight and entries waiting
C6_Witness ==
    /\ last.op = "connectionLost"
    /\ last.mixed
    /\ commands = <<>>

\* the poll batch, as plh120_Protocol.__init__ and update spell it
C7_Expected ==
    << [cmd |-> "I1?",     source |-> "itself", keep |-> TRUE, sent |-> FALSE, id |-> 0],
       [cmd |-> "V1?",     source |-> "itself", keep |-> TRUE, sent |-> FALSE, id |-> 0],
       [cmd |-> "I1O?",    source |-> "itself", keep |-> TRUE, sent |-> FALSE, id |-> 0],
       [cmd |-> "V1O?",    source |-> "itself", keep |-> TRUE, sent |-> FALSE, id |-> 0],
       [cmd |-> "OP1?",    source |-> "itself", keep |-> TRUE, sent |-> FALSE, id |-> 0],
       [cmd |-> "OVP1?",   source |-> "itself", keep |-> TRUE, sent |-> FALSE, id |-> 0],
       [cmd |-> "OCP1?",   source |-> "itself", keep |-> TRUE, sent |-> FALSE, id |-> 0],
       [cmd |-> "CONFIG?", source |-> "itself", keep |-> TRUE, sent |-> FALSE, id |-> 0] >>

\* C7: whenever update runs on a connected link whose queue is empty, the
\* queue afterwards is the configured status-poll list in its declared order,
\* each entry with keep=true, sent=false and the source "itself".
C7_RefillOnEmpty ==
    [][(last'.op = "update" /\ link /\ obj.hw_connected # 0 /\ commands = <<>>)
          => (commands' = C7_Expected /\ hwout' = <<>>)]_vars

\* update has just refilled a queue that a reply had emptied
C7_Witness ==
    /\ last.op = "update"
    /\ Len(commands) = Len(status_commands)
    /\ \A i \in DOMAIN commands : commands[i].source = "itself" /\ ~commands[i].sent
    /\ obj.Current_Limit # Absent

(***************************************************************************)
(* Properties of the monitor (SpecMon).                                    *)
(***************************************************************************)
\* the buffers of the peer whose status command the step handled
StatusStepOf(name) ==
    /\ last'.src = "peer" /\ last'.op = "status"
    /\ connections[IndexOf(connections, last'.conn)].name = name

\* the step shortened buffer h to h2 (it did not simply append one sample)
Truncated(h, h2) == HLen(h2) # HLen(h) + 1

\* C5 as stated: after a status command no history is longer than 1000, and
\* right after a truncation its length is exactly 900.
C5_LengthAfterTruncation900 ==
    [][\A name \in Clients : \A var \in DOMAIN values[name] :
          StatusStepOf(name) =>
              /\ HLen(values'[name][var]) <= 1000
              /\ Truncated(values[name][var], values'[name][var])
                    => HLen(values'[name][var]) = 900]_vars

\* C5 as amended: after a status command no history is longer than 1000, and
\* right after a truncation its length is exactly 901.
C5_LengthAfterTruncation901 ==
    [][\A name \in Clients : \A var \in DOMAIN values[name] :
          StatusStepOf(name) =>
              /\ HLen(values'[name][var]) <= 1000
              /\ Truncated(values[name][var], values'[name][var])
                    => HLen(values'[name][var]) = 901]_vars

\* a status command has just made a full history overflow
C5_Witness ==
    /\ last.src = "peer" /\ last.op = "status"
    /\ values["ccd1"]["temp"].fill = 900
    /\ Len(values["ccd1"]["temp"].tail) = 1
    /\ HLen(values["ccd1"]["time"]) = 901

\* C8: getStatus(as_dict=True) has an entry for every configured peer name:
\* {} when no live connection has that name, the status snapshot of a
\* connection of that name otherwise.
C8_StatusEntryPerClient ==
    LET g == getStatus(connections, db_status_interval)
    IN  \A name \in Clients :
            LET named == {i \in DOMAIN connections : connections[i].name = name}
            IN  /\ name \in DOMAIN g
                /\ named = {} => g[name] = <<>>
                /\ named # {} => \E i \in named : g[name] = connections[i].status
                /\ \A i \in named : Cardinality(named) = 1 => g[name] = connections[i].status

\* one configured peer is connected and has reported, the other is absent
C8_Witness ==
    /\ \E i \in DOMAIN connections :
          connections[i].name = "ccd1" /\ connections[i].status # <<>>
    /\ \A i \in DOMAIN connections : connections[i].name # "hw"
    /\ Len(connections) = 2

\* the key/value set each status line of PeerLines carries
C9_Expected(line) ==
    IF line = L_status_full
    THEN << [k |-> "temp", v |-> <<"2", "0", ".", "5">>],
            [k |-> "state", v |-> <<"i", "d", "l", "e">>] >>
    ELSE IF line = L_status_x THEN << [k |-> "temp", v |-> <<"x">>] >>
    ELSE <<>>

StatusLines == {L_status_full, L_status_x, L_status_none}

SnapshotOf(conns, id) == conns[IndexOf(conns, id)].status

\* C9: a status command replaces the snapshot of its connection by exactly
\* the key/value set it carries, and no other operation changes a snapshot.
C9_SnapshotIsLastStatus ==
    [][\A id \in ConnIds :
          (id \in LiveIds /\ id \in LiveIds') =>
              IF last'.src = "peer" /\ last'.op = "status" /\ last'.conn = id
              THEN \E line \in StatusLines :
                      /\ monProcessMessage(id, line)
                      /\ SnapshotOf(connections', id) = C9_Expected(line)
              ELSE SnapshotOf(connections', id) = SnapshotOf(connections, id)]_vars

\* a status command without the key state has just followed one with it
C9_Witness ==
    /\ last.src = "peer" /\ last.op = "status" /\ last.dropped
    /\ SnapshotOf(connections, last.conn) = << [k |-> "temp", v |-> <<"x">>] >>

\* the target name and the payload of each send line
SendLines == {L_send_hw, L_send_ccd, L_send_nobody, L_send_bare}

C10_Target(line) ==
    IF line = L_send_hw THEN "hw"
    ELSE IF line = L_send_ccd THEN "ccd1"
    ELSE IF line = L_send_nobody THEN "nobody"
    ELSE ""

C10_Payload(line) ==
    IF line = L_send_hw THEN "OP1 1"
    ELSE IF line = L_send_ccd THEN "get_status format=json"
    ELSE IF line = L_send_nobody THEN "X"
    ELSE ""

\* the step handled line as a command of a peer, of the console or of the web
HandledLine(line) ==
    \/ \E id \in ConnIds : id \in LiveIds /\ monProcessMessage(id, line)
    \/ lineReceived(line)
    \/ render_GET(line)

\* C10: a send command delivers to the connection of the given name, and to
\* no other, exactly the tokens after the name joined by single spaces.
C10_SendDelivers ==
    [][\A line \in SendLines :
          (last'.op = "send" /\ HandledLine(line)) =>
              IF \E i \in DOMAIN connections : connections[i].name = C10_Target(line)
              THEN /\ Len(out') = 1
                   /\ out'[1].text = C10_Payload(line)
                   /\ out'[1].to \in LiveIds
                   /\ connections[IndexOf(connections, out'[1].to)].name = C10_Target(line)
              ELSE out' = <<>>]_vars

\* the console's send hw OP1 1 has just been delivered while another
\* connection was live
C10_Witness ==
    /\ last.src = "console" /\ last.op = "send"
    /\ Len(connections) = 2
    /\ Len(out) = 1
    /\ out[1].text = "OP1 1"
    /\ \E i \in DOMAIN connections : connections[i].id = out[1].to /\ connections[i].name = "hw"
    /\ \E i \in DOMAIN connections : connections[i].name # "hw"


\* the send lines that name a target
NamedSendLines == {line \in SendLines : Len(line) >= 2}

\* C11: a send addressed to a name that no connection is identified with is
\* a silent no-op: nothing is written to any connection and no connection,
\* history buffer or status snapshot changes.
C11_SendToNobodyIsNoOp ==
    [][\A line \in NamedSendLines :
          (/\ last'.op = "send"
           /\ HandledLine(line)
           /\ \A i \in DOMAIN connections : connections[i].name # line[2].text)
              => /\ out' = <<>>
                 /\ dbq' = <<>>
                 /\ connections' = connections
                 /\ values' = values]_vars

\* the console's send hw OP1 1 has just been handled while two connections
\* were live, one of them with a snapshot, and none was identified as hw
C11_Witness ==
    /\ last.src = "console" /\ last.op = "send"
    /\ Len(connections) = 2
    /\ \A i \in DOMAIN connections : connections[i].name # "hw"
    /\ \E i \in DOMAIN connections : connections[i].status # <<>>
    /\ out = <<>>

(***************************************************************************)
(* Further properties of the outbound queue (SpecHW).                      *)
(***************************************************************************)
\* the keys of obj that hold what the device reported or what was asked of it
DeviceKeys == DOMAIN EmptyObj \ {"hw_connected"}

\* C12: a device reply that arrives while the outbound queue is empty is
\* discarded without failure: the queue stays empty, nothing is forwarded to
\* any requester and no device value of obj changes.
C12_ReplyOnEmptyQueue ==
    [][(last'.op = "processMessage" /\ commands = <<>>)
          => /\ commands' = <<>>
             /\ fwd' = <<>>
             /\ last'.ok
             /\ \A k \in DeviceKeys : obj'[k] = obj[k]]_vars

\* a reply has just been handled on an empty queue after the device had
\* reported values
C12_Witness ==
    /\ last.op = "processMessage" /\ last.empty
    /\ commands = <<>>
    /\ obj.Current_Limit # Absent

\* the keys of obj that processMessage assigns from device replies
ReplyKeys ==
    {"Current_Limit", "Voltage", "VoltageActual", "CurrentActual", "VOut1", "OVP1", "OCP1"}

\* the value of key k is an unknown sentinel (or was never assigned)
IsSentinel(k, v) == IF k \in {"VOut1", "Vstatus"} THEN v = 0 ELSE v \in {NaN, Absent}

\* C13: after connectionLost no value learned from a device reply remains in
\* obj, and get_status reports only sentinel values.
C13_LossResetsLearned ==
    last.op = "connectionLost" =>
        /\ \A k \in ReplyKeys : IsSentinel(k, obj[k])
        /\ \A k \in DOMAIN StatusLine(obj) \ {"hw_connected"} : IsSentinel(k, StatusLine(obj)[k])
        /\ StatusLine(obj).hw_connected = 0

\* the part of C13 about get_status alone (it reads the keys resetObjStatus
\* assigns, not the keys the replies are stored under)
C13_GetStatusSentinels ==
    last.op = "connectionLost" =>
        /\ \A k \in DOMAIN StatusLine(obj) \ {"hw_connected"} : IsSentinel(k, StatusLine(obj)[k])
        /\ StatusLine(obj).hw_connected = 0

\* update acts on a connected link whose head entry exists and is unsent
TickOnUnsentHead ==
    /\ last'.op = "update"
    /\ obj.hw_connected # 0
    /\ commands # <<>>
    /\ ~commands[1].sent

\* C14: a tick on a connected link whose head entry exists and is unsent
\* transmits exactly that entry's text; an entry with keep=false is removed
\* in the same tick, any other stays at the head with sent=true; no other
\* entry is transmitted, removed or modified.
C14_TickTransmitsHead ==
    [][TickOnUnsentHead =>
          /\ hwout' = <<commands[1].cmd>>
          /\ commands' = IF commands[1].keep
                         THEN <<[commands[1] EXCEPT !.sent = TRUE]>> \o Tail(commands)
                         ELSE Tail(commands)]_vars

\* a tick has just transmitted and removed a fire-and-forget entry in front
\* of the entries that wait
C14_Witness ==
    /\ last.op = "update"
    /\ hwout = <<"OP1 1\n">>
    /\ Len(commands) >= 2
    /\ \A i \in DOMAIN commands : ~commands[i].sent /\ commands[i].cmd # "OP1 1\n"

\* C15: when a reply is matched to the head entry (and the entry is popped),
\* the reply is forwarded verbatim to the entry's requester and leaves the
\* device values of obj alone if the source is not "itself"; it is forwarded
\* to nobody if the source is "itself".
C15_ForwardOrParse ==
    [][(last'.op = "processMessage" /\ last'.ok /\ commands # <<>>) =>
          IF commands[1].source # "itself"
          THEN /\ Len(fwd') = 1
               /\ fwd'[1].to = commands[1].source
               /\ fwd'[1].text \in Replies
               /\ \A k \in DeviceKeys : obj'[k] = obj[k]
          ELSE fwd' = <<>>]_vars

(***************************************************************************)
(* Properties of the entry in flight (SpecHW).                             *)
(***************************************************************************)
\* the head of the queue is in flight
InFlight == commands # <<>> /\ commands[1].sent

\* after the step the entry in flight is no longer the head of the queue
HeadLeft == commands' = <<>> \/ Fields(commands'[1]) # Fields(commands[1])

\* C17: no timeout or retry exists for an entry in flight: a tick with the
\* head in flight transmits nothing and leaves the queue unchanged, a tick
\* transmits only an entry that was not sent yet, and the entry in flight
\* leaves the queue only through a reply or through link loss.
C17_NoTimeoutNoRetry ==
    /\ [][(last'.op = "update" /\ InFlight) => (hwout' = <<>> /\ commands' = commands)]_vars
    /\ [][(last'.op = "update" /\ hwout' # <<>>)
             => (commands # <<>> /\ ~commands[1].sent /\ hwout' = <<commands[1].cmd>>)]_vars
    /\ [][(InFlight /\ HeadLeft) => last'.op \in {"processMessage", "connectionLost"}]_vars

\* a tick has just found the head in flight, with other entries waiting
\* behind it, and has transmitted nothing
C17_Witness ==
    /\ last.op = "update"
    /\ hwout = <<>>
    /\ Len(commands) >= 2
    /\ commands[1].sent
    /\ ~commands[2].sent /\ commands[2].id # 0

(***************************************************************************)
(* Properties of the database writes (SpecDB).                             *)
(***************************************************************************)
\* the step handled a status command of a peer
StatusStep == last'.src = "peer" /\ last'.op = "status"

\* the database write is due
Due == now - db_status_timestamp > db_status_interval

\* the step requested one write of the aggregated view and moved the
\* timestamp, or requested none and left the timestamp
WroteIff(due) ==
    IF due
    THEN /\ Len(dbq') = 1
         /\ dbq'[1].time = now
         /\ dbq'[1].status = getStatus(connections', db_status_interval)
         /\ db_status_timestamp' = now
    ELSE /\ dbq' = <<>>
         /\ db_status_timestamp' = db_status_timestamp

\* C16: with a database configured, handling a status command requests a
\* write exactly when the time since the last write exceeds the interval in
\* force, and moves the timestamp in the same handler (so a status command
\* requests at most one write, and two consecutive writes are more than the
\* interval apart).
C16_WriteWhenDue == [][(StatusStep /\ db) => WroteIff(Due)]_vars

\* the sender of the status command the step handled: the handler reaches its
\* database part (the keyword text is built without an exception)
SenderCompletes ==
    LET c == connections[IndexOf(connections, last'.conn)]
        s == connections'[IndexOf(connections', last'.conn)].status
    IN  c.type = "ccd" \/ c.name # None \/ s = <<>>

\* C16 for the status commands whose handler reaches the database part
C16_WriteWhenDueCompleted ==
    [][(StatusStep /\ db /\ SenderCompletes) => WroteIff(Due)]_vars

\* a second write has just been requested, under an interval set in between
C16_SecondWrite ==
    /\ last.src = "peer" /\ last.op = "status"
    /\ Len(dbq) = 1
    /\ dbq[1].time >= 3
    /\ db_status_interval = 2

(***************************************************************************)
(* Properties of identity and routing (SpecMon).                           *)
(***************************************************************************)
\* the connection has a name captured from an id command
Identified(c) == c.name # None

ConnOf(conns, id) == conns[IndexOf(conns, id)]

\* the id lines that carry a name
NamedIdLines == {L_id_ccd, L_id_hw}

\* C18: a connection becomes Identified on an id command that names it and,
\* once Identified, stays Identified until link loss: no later command, a
\* further id command with or without a name included, returns it to the
\* Unidentified state.
C18_IdentifiedUntilLoss ==
    [][\A id \in ConnIds :
          (id \in LiveIds /\ id \in LiveIds') =>
              /\ (\E line \in NamedIdLines : monProcessMessage(id, line))
                     => Identified(ConnOf(connections', id))
              /\ Identified(ConnOf(connections, id))
                     => Identified(ConnOf(connections', id))]_vars

\* the connections a message of out was handed to
Recipients(msgs) == {msgs[k].to : k \in DOMAIN msgs}

CcdIds == {connections[i].id : i \in {j \in DOMAIN connections : connections[j].type = "ccd"}}

\* C19: the keyword broadcast of a status command is delivered only to
\* connections of type 'ccd', never to another connection and never back to
\* the sender; a status command from a connection of type 'ccd' triggers no
\* broadcast; a broadcast that no connection matches delivers to nobody and
\* the handler goes on without an error (to its database part).
C19_BroadcastToCcdOnly ==
    [][StatusStep =>
          LET s == ConnOf(connections, last'.conn)
          IN  /\ Recipients(out') \subseteq CcdIds \ {s.id}
              /\ s.type = "ccd" => out' = <<>>
              /\ (s.type # "ccd" /\ SenderCompletes)
                    => /\ Recipients(out') = CcdIds
                       /\ Len(out') = Cardinality(CcdIds)
                       /\ db => WroteIff(Due)]_vars

\* the status of the connection named hw has just been broadcast to the ccd
\* connection, and to it alone
C19_Witness ==
    /\ last.src = "peer" /\ last.op = "status"
    /\ Len(connections) = 2
    /\ ConnOf(connections, last.conn).name = "hw"
    /\ Len(out) = 1
    /\ out[1].to # last.conn
    /\ ConnOf(connections, out[1].to).type = "ccd"
    /\ out[1].text = "set_keywords hw.temp=\"x\""

\* the live connections without a name
UnnamedIds ==
    {connections[i].id : i \in {j \in DOMAIN connections : ~Identified(connections[j])}}

\* C20: a connection that is still Unidentified (no name captured) takes no
\* part in routing or aggregation: no send reaches it, its status commands
\* change no entry of the aggregated status, append no history sample and
\* trigger no keyword broadcast.
C20_UnidentifiedTakesNoPart ==
    [][/\ last'.op = "send" => Recipients(out') \cap UnnamedIds = {}
       /\ (StatusStep /\ last'.conn \in UnnamedIds)
             => /\ \A name \in Clients :
                      getStatus(connections', db_status_interval)[name]
                          = getStatus(connections, db_status_interval)[name]
                /\ values' = values
                /\ out' = <<>>]_vars

\* the parts of C20 about send, aggregation and history (the broadcast left
\* aside)
C20_UnidentifiedNotRouted ==
    [][/\ last'.op = "send" => Recipients(out') \cap UnnamedIds = {}
       /\ (StatusStep /\ last'.conn \in UnnamedIds)
             => /\ \A name \in Clients :
                      getStatus(connections', db_status_interval)[name]
                          = getStatus(connections, db_status_interval)[name]
                /\ values' = values]_vars

(***************************************************************************)
(* Properties of the history buffers (SpecHist).                           *)
(***************************************************************************)
\* buffer h2 is buffer h with one sample appended
Extends(h, h2) ==
    /\ h2.fill = h.fill
    /\ Len(h2.tail) = Len(h.tail) + 1
    /\ SubSeq(h2.tail, 1, Len(h.tail)) = h.tail

\* buffer h2 is buffer h with one sample appended and the oldest HistDrop
\* samples dropped
ExtendsAndDrops(h, h2) ==
    /\ HLen(h2) = HLen(h) + 1 - HistDrop
    /\ h.fill >= HistDrop => (h2.fill = h.fill - HistDrop /\ Extends([h EXCEPT !.fill = h2.fill], h2))

\* the name of the connection whose command the step handled
SenderName == ConnOf(connections, last'.conn).name

\* C21: the history buffers change only through a status command of a peer
\* whose name has tracked variables, which extends or truncates the buffers
\* of that name only, and through reset_plots, which empties every buffer
\* and keeps the tracked (peer, variable) keys and every status snapshot;
\* every other step leaves the buffers unchanged.
C21_HistoryFrame ==
    [][/\ DOMAIN values' = DOMAIN values
       /\ \A name \in DOMAIN values : DOMAIN values'[name] = DOMAIN values[name]
       /\ IF last'.op = "reset_plots"
          THEN /\ \A name \in DOMAIN values : \A var \in DOMAIN values[name] :
                      HLen(values'[name][var]) = 0
               /\ connections' = connections
          ELSE IF StatusStep /\ SenderName \in DOMAIN values
          THEN \A name \in DOMAIN values : \A var \in DOMAIN values[name] :
                  IF name = SenderName
                  THEN \/ Extends(values[name][var], values'[name][var])
                       \/ ExtendsAndDrops(values[name][var], values'[name][var])
                  ELSE values'[name][var] = values[name][var]
          ELSE values' = values]_vars

\* a status command of the connection named hw has just extended the buffer
\* of hw next to a buffer of ccd1 that holds samples
C21_Witness ==
    /\ last.src = "peer" /\ last.op = "status"
    /\ ConnOf(connections, last.conn).name = "hw"
    /\ Len(values["hw"]["time"].tail) = 1
    /\ values["hw"]["time"].fill = 0
    /\ Len(values["ccd1"]["temp"].tail) = 1

\* the buffers of one peer have the same length
EqualLengths ==
    \A name \in DOMAIN values : \A v1, v2 \in DOMAIN values[name] :
        HLen(values[name][v1]) = HLen(values[name][v2])

\* the step appended one sample to buffer h, the absent value for a variable
\* that status st lacks
AppendedOne(var, st, h, h2) ==
    /\ HLen(h2) \in {HLen(h) + 1, HLen(h) + 1 - HistDrop}
    /\ h2.tail # <<>>
    /\ (var # "time" /\ ~HasKey(st, var)) => h2.tail[Len(h2.tail)] = NoSample
    /\ (var # "time" /\ HasKey(st, var)) => h2.tail[Len(h2.tail)] # NoSample

\* C22: in every reachable state all tracked variables of the same peer, time
\* included, have history buffers of equal length; each status command
\* appends exactly one sample to every tracked variable of its peer (the
\* absent value when the status lacks the variable).
C22_EqualHistoryLengths ==
    /\ []EqualLengths
    /\ [][(StatusStep /\ SenderName \in DOMAIN values) =>
             \A var \in DOMAIN values[SenderName] :
                 AppendedOne(var, ConnOf(connections', last'.conn).status,
                             values[SenderName][var], values'[SenderName][var])]_vars

\* a status command without the variable temp has just overflowed the full
\* buffers of ccd1: both were truncated alike and the absent value recorded
C22_Witness ==
    /\ last.src = "peer" /\ last.op = "status"
    /\ ConnOf(connections, last.conn).name = "ccd1"
    /\ values["ccd1"]["temp"] = [fill |-> HistCap - HistDrop, tail |-> <<NoSample>>]
    /\ values["ccd1"]["time"] = [fill |-> HistCap - HistDrop, tail |-> <<0>>]

(***************************************************************************)
(* Further properties of replies and progress (SpecHW).                    *)
(***************************************************************************)
\* C23: a reply never removes an entry that has not been transmitted:
\* whenever processMessage pops the head entry, that entry has sent=true.
C23_ReplyPopsOnlySent ==
    [][(last'.op = "processMessage" /\ commands # <<>> /\ commands' = Tail(commands))
          => commands[1].sent]_vars

\* the last command of the poll batch waits in the queue, not transmitted
PollWaits ==
    \E i \in DOMAIN commands :
        commands[i].source = "itself" /\ commands[i].cmd = "CONFIG?" /\ ~commands[i].sent

\* the last command of the poll batch has been transmitted
PollTransmitted ==
    \E i \in DOMAIN commands :
        commands[i].source = "itself" /\ commands[i].cmd = "CONFIG?" /\ commands[i].sent

\* C24: if the link stays up, ticks keep occurring and every transmitted
\* entry that expects a reply receives one, an entry of a refilled poll batch
\* is eventually transmitted, even while other commands keep being enqueued.
C24_PollEventuallyTransmitted == PollWaits ~> PollTransmitted

\* the same progress once no further command is enqueued
C24_ProgressWhenEnqueuesStop ==
    <>[](last.op # "daemonMessage") => (PollWaits ~> PollTransmitted)

\* C25: while hw_connected is 0 a tick transmits nothing to the device, does
\* not refill the poll batch and changes no queue entry.
C25_TickWhileNotConnected ==
    [][(last'.op = "update" /\ obj.hw_connected = 0)
          => (hwout' = <<>> /\ commands' = commands)]_vars

\* a tick after a link loss (a reply had been learned before): the queue is
\* still empty and nothing was transmitted
C25_Witness ==
    /\ last.op = "update"
    /\ obj.hw_connected = 0
    /\ ~link
    /\ obj.Current_Limit # Absent
    /\ commands = <<>>
    /\ hwout = <<>>
====
